---- MODULE Spec2Model ----
(***************************************************************************)
(* textplot.text.Text: the tokenizer and term index, the frequency         *)
(* analyzer, the memoized density estimator (kde), the pairwise scorers    *)
(* and the anchored scan of src/textplot/text.py.                          *)
(*                                                                         *)
(* A raw text is a sequence of surface words (the word boundaries are the  *)
(* external tokenizing utility's).  An OrderedDict is a sequence of        *)
(* [k, v] records in insertion order.  Offsets are 0-based as in the code, *)
(* so the token at offset o is tokens[o + 1].                              *)
(***************************************************************************)
EXTENDS Integers, Sequences, FiniteSets, TLC

VARIABLES
    text,      \* self.text of each Text object
    tokens,    \* self.tokens of each Text object
    terms,     \* self.terms of each Text object (an OrderedDict)
    cache,     \* the lru_cache of Text.kde: entries, least recently used first
    computed,  \* history: the (self, term, bandwidth, samples, kernel) whose curve kde's body has computed
    sweep,     \* the position of a caller's loop over bandwidths
    last       \* the last operation, its arguments and its outcome

vars == <<text, tokens, terms, cache, computed, sweep, last>>

(***************************************************************************)
(* Bounds of the model.                                                    *)
(***************************************************************************)
MaxLen == 3

MaxSweep == 130

(***************************************************************************)
(* The inputs.                                                             *)
(***************************************************************************)
Objects == {"t1", "t2"}

Vocabulary == {"the", "ons", "cat", "cats", "sat"}

SeqsUpTo(S, n) == UNION {[1..k -> S] : k \in 0..n}

Texts == SeqsUpTo(Vocabulary, MaxLen)

\* The Porter stemmer on the vocabulary.
stem(w) ==
    CASE w = "cats" -> "cat"
      [] w = "ons" -> "on"
      [] OTHER -> w

\* The content of the stopword file.
stopwords == {"the", "on"}

Stems == {stem(w) : w \in Vocabulary}

None == [none |-> TRUE]

(***************************************************************************)
(* OrderedDict and list helpers.                                           *)
(***************************************************************************)
Range(s) == {s[i] : i \in 1..Len(s)}

\* F(v) with v evaluated once.
Let(v, F(_)) == CHOOSE r \in {F(x) : x \in {v}} : TRUE

keys(d) == [i \in 1..Len(d) |-> d[i].k]

values(d) == [i \in 1..Len(d) |-> d[i].v]

Has(d, k) == \E i \in 1..Len(d) : d[i].k = k

Get(d, k) == d[CHOOSE i \in 1..Len(d) : d[i].k = k].v

\* d.setdefault(k, []).append(x)
SetDefaultAppend(d, k, x) ==
    IF Has(d, k)
    THEN [i \in 1..Len(d) |-> IF d[i].k = k THEN [k |-> k, v |-> Append(d[i].v, x)] ELSE d[i]]
    ELSE Append(d, [k |-> k, v |-> <<x>>])

\* lst[:n] of Python, n of either sign.
SliceTo(lst, n) ==
    LET m == IF n >= 0
             THEN (IF n < Len(lst) THEN n ELSE Len(lst))
             ELSE (IF Len(lst) + n > 0 THEN Len(lst) + n ELSE 0)
    IN SubSeq(lst, 1, m)

\* a / b < c / d for a, c >= 0 and b, d > 0, without forming the products.
RECURSIVE FracLess(_, _, _, _)
FracLess(a, b, c, d) ==
    LET q1 == a \div b
        q2 == c \div d
        r1 == a % b
        r2 == c % d
    IN IF q1 # q2 THEN q1 < q2
       ELSE IF r2 = 0 THEN FALSE
       ELSE IF r1 = 0 THEN TRUE
       ELSE FracLess(d, r2, b, r1)

ScoreLess(x, y) == FracLess(x.num, x.den, y.num, y.den)

\* The order of the values that are sorted: counts ("int") and scores
\* ("fraction").
ValueLess(type, a, b) == IF type = "int" THEN a < b ELSE ScoreLess(a, b)

(***************************************************************************)
(* textplot.utils (not part of the sources at hand).                       *)
(***************************************************************************)
\* utils.tokenize: one token per word, with its rank as offset.
utils_tokenize(t) ==
    [i \in 1..Len(t) |-> [stemmed |-> stem(t[i]), unstemmed |-> t[i], offset |-> i - 1]]

\* utils.sort_dict: descending by value, equal values in insertion order (a
\* stable sort): an item comes after every greater item and after the equal
\* items inserted before it.  type is the type of the values.
utils_sort_dict(d, type) ==
    LET pos(i) == 1 + Cardinality({j \in 1..Len(d) : ValueLess(type, d[i].v, d[j].v)})
                    + Cardinality({j \in 1..(i - 1) :
                                      ~ValueLess(type, d[i].v, d[j].v) /\ ~ValueLess(type, d[j].v, d[i].v)})
    IN [p \in 1..Len(d) |-> d[CHOOSE i \in 1..Len(d) : pos(i) = p]]

\* utils.window(seq, 2): the pairs of neighbours.
utils_window2(s) ==
    [i \in 1..(IF Len(s) > 0 THEN Len(s) - 1 ELSE 0) |-> <<s[i], s[i + 1]>>]

(***************************************************************************)
(* Text.tokenize                                                           *)
(***************************************************************************)
\* tokenize_step with the stopword dropped instead of kept as a placeholder.
tokenize_step_skipping(st, token) ==
    IF token.unstemmed \in stopwords
    THEN st
    ELSE [tokens |-> Append(st.tokens, token),
          terms |-> SetDefaultAppend(st.terms, token.stemmed, token.offset)]

\* tokenize_step with the stopword test on the stemmed form.
tokenize_step_stemmed(st, token) ==
    IF token.stemmed \in stopwords
    THEN [tokens |-> Append(st.tokens, None), terms |-> st.terms]
    ELSE [tokens |-> Append(st.tokens, token),
          terms |-> SetDefaultAppend(st.terms, token.stemmed, token.offset)]

\* One pass of the loop body over the token stream.
tokenize_step(st, token) ==
    IF token.unstemmed \in stopwords
    THEN [tokens |-> Append(st.tokens, None), terms |-> st.terms]
    ELSE [tokens |-> Append(st.tokens, token),
          terms |-> SetDefaultAppend(st.terms, token.stemmed, token.offset)]

RECURSIVE tokenize_loop(_, _, _)
tokenize_loop(st, stream, i) ==
    IF i > Len(stream) THEN st
    ELSE tokenize_loop(tokenize_step(st, stream[i]), stream, i + 1)

tokenize(t) ==
    tokenize_loop([tokens |-> <<>>, terms |-> <<>>], utils_tokenize(t), 1)

(***************************************************************************)
(* The frequency analyzer.  A query on the index T returns                 *)
(* [raised, ret, terms]: the exception raised ("none": it returned ret)    *)
(* and the index as the query leaves it.                                   *)
(***************************************************************************)
Ok(v, T) == [raised |-> "none", ret |-> v, terms |-> T]

Raise(e, T) == [raised |-> e, ret |-> <<>>, terms |-> T]

term_counts(T) ==
    utils_sort_dict([i \in 1..Len(T) |-> [k |-> T[i].k, v |-> Len(T[i].v)]], "int")

\* count -> the terms with that count, in term_counts order.
term_count_buckets(T) ==
    LET counts == term_counts(T)
        cs == Range(values(counts))
        sel(c) == LET F[j \in 0..Len(counts)] ==
                          IF j = 0 THEN <<>>
                          ELSE IF counts[j].v = c THEN Append(F[j - 1], counts[j].k)
                               ELSE F[j - 1]
                  IN F[Len(counts)]
    IN [c \in cs |-> sel(c)]

\* most_frequent_terms without the merge of the last bucket.
most_frequent_terms_truncating(T, depth) ==
    LET counts == term_counts(T)
        top_terms == Range(SliceTo(keys(counts), depth))
        head == SliceTo(values(counts), depth)
    IN IF head = <<>> THEN Raise("IndexError", T)
       ELSE Ok(top_terms, T)

most_frequent_terms(T, depth) ==
    LET counts == term_counts(T)
        top_terms == Range(SliceTo(keys(counts), depth))
        head == SliceTo(values(counts), depth)
    IN IF head = <<>> THEN Raise("IndexError", T)
       ELSE LET end_count == head[Len(head)]
                bucket == term_count_buckets(T)[end_count]
            IN Ok(top_terms \cup Range(bucket), T)

\* The lookup of a dictionary that inserts the missing key (a defaultdict).
terms_getitem_inserting(T, term) ==
    IF Has(T, term) THEN Ok(Get(T, term), T)
    ELSE Ok(<<>>, Append(T, [k |-> term, v |-> <<>>]))

\* self.terms[term]: the lookup of an OrderedDict, which inserts nothing.
terms_getitem(T, term) ==
    IF Has(T, term) THEN Ok(Get(T, term), T) ELSE Raise("KeyError", T)

term_distances(T, term) ==
    LET got == terms_getitem(T, term)
    IN IF got.raised # "none" THEN got
       ELSE LET w == utils_window2(got.ret)
            IN Ok([i \in 1..Len(w) |-> w[i][2] - w[i][1]], got.terms)

\* Counter(originals).most_common(1)[0][0]: the most frequent, the first seen on a tie.
unstem(tk, T, term) ==
    LET got == terms_getitem(T, term)
    IN IF got.raised # "none" THEN got
       ELSE LET originals == [i \in 1..Len(got.ret) |-> tk[got.ret[i] + 1].unstemmed]
                n(w) == Cardinality({i \in 1..Len(originals) : originals[i] = w})
                first(w) == CHOOSE i \in 1..Len(originals) :
                                originals[i] = w /\ \A j \in 1..(i - 1) : originals[j] # w
                best == CHOOSE w \in Range(originals) :
                            \A u \in Range(originals) :
                                n(u) < n(w) \/ (n(u) = n(w) /\ first(w) <= first(u))
            IN Ok(best, got.terms)

(***************************************************************************)
(* Text.kde and its lru_cache.                                             *)
(***************************************************************************)
default_bandwidth == 2000

default_samples == 1000

default_kernel == "gaussian"

\* functools.lru_cache(): maxsize defaults to 128.
lru_maxsize == 128

\* A call kde(*args, **kwds) on an object; kwds in the order they are passed.
Call(args, kwds) == [args |-> args, kwds |-> kwds]

Kw(name, value) == [name |-> name, value |-> value]

\* The parameters a call binds: by position, then by keyword, then the default.
Bound(call, i, name, default) ==
    IF i <= Len(call.args) THEN call.args[i]
    ELSE IF \E j \in 1..Len(call.kwds) : call.kwds[j].name = name
         THEN call.kwds[CHOOSE j \in 1..Len(call.kwds) : call.kwds[j].name = name].value
         ELSE default

Bind(call) ==
    [term |-> call.args[1],
     bandwidth |-> Bound(call, 2, "bandwidth", default_bandwidth),
     samples |-> Bound(call, 3, "samples", default_samples),
     kernel |-> Bound(call, 4, "kernel", default_kernel)]

\* A key made of the parameters the call binds, however they are passed.
make_key_bound(o, call) ==
    [self |-> o,
     args |-> <<call.args[1], Bound(call, 2, "bandwidth", default_bandwidth),
                Bound(call, 3, "samples", default_samples),
                Bound(call, 4, "kernel", default_kernel)>>,
     kwds |-> <<>>]

\* The key lru_cache makes of a call: self and the positional arguments, then
\* the keyword arguments as passed.
make_key(o, call) == [self |-> o, args |-> call.args, kwds |-> call.kwds]

\* The density curve: the estimator fitted on the offsets with the kernel
\* and bandwidth, scored on linspace(0, len(tokens), samples) and scaled by
\* len(tokens) / samples.  It is a function of exactly these five values.
Curve(offsets, n, p) ==
    [offsets |-> offsets, n |-> n, bandwidth |-> p.bandwidth,
     samples |-> p.samples, kernel |-> p.kernel]

\* The body of kde with a missing term read as a term without occurrences.
kde_body_lenient(tk, T, p) ==
    Ok(Curve(IF Has(T, p.term) THEN Get(T, p.term) ELSE <<>>, Len(tk), p), T)

\* The body of kde.
kde_body(tk, T, p) ==
    LET got == terms_getitem(T, p.term)
    IN IF got.raised # "none" THEN got
       ELSE Ok(Curve(got.ret, Len(tk), p), got.terms)

CacheIndex(c, key) == {i \in 1..Len(c) : c[i].key = key}

Without(c, i) == SubSeq(c, 1, i - 1) \o SubSeq(c, i + 1, Len(c))

\* kde through its lru_cache wrapper.  W is the world the call runs in:
\* [tokens, terms, cache, computed] with tokens and terms those of the object.
\* The result is [raised, ret, terms, cache, computed, hit, recomputed].
kde_hit(W, i) ==
    [raised |-> "none", ret |-> W.cache[i].val, terms |-> W.terms,
     cache |-> Append(Without(W.cache, i), W.cache[i]),
     computed |-> W.computed, hit |-> TRUE, recomputed |-> FALSE]

kde_miss(W, key, id, out) ==
    IF out.raised # "none"
    THEN [raised |-> out.raised, ret |-> out.ret, terms |-> out.terms,
          cache |-> W.cache, computed |-> W.computed,
          hit |-> FALSE, recomputed |-> FALSE]
    ELSE [raised |-> "none", ret |-> out.ret, terms |-> out.terms,
          cache |-> Append(IF Len(W.cache) >= lru_maxsize THEN Tail(W.cache) ELSE W.cache,
                           [key |-> key, val |-> out.ret]),
          computed |-> W.computed \cup {id},
          hit |-> FALSE, recomputed |-> id \in W.computed]

kde(W, o, call) ==
    LET key == make_key(o, call)
        at == CacheIndex(W.cache, key)
    IN IF at # {}
       THEN kde_hit(W, CHOOSE i \in at : TRUE)
       ELSE Let(Bind(call), LAMBDA p :
                kde_miss(W, key,
                         [self |-> o, term |-> p.term, bandwidth |-> p.bandwidth,
                          samples |-> p.samples, kernel |-> p.kernel],
                         kde_body(W.tokens, W.terms, p)))

World(o) == [tokens |-> tokens[o], terms |-> terms[o], cache |-> cache, computed |-> computed]

(***************************************************************************)
(* The pairwise scorers.  A curve is evaluated exactly for the linear      *)
(* kernel, whose density is rational: at x it is                           *)
(*   (1 / (N * h)) * SUM_i max(0, 1 - |x - x_i| / h)                       *)
(* over the N offsets x_i, with h the bandwidth.  The sample points are    *)
(* linspace(0, n, s)[j] = j * n / D, with D = s - 1 (D = 1 when s = 1), so *)
(* the curve's value at sample j is  Weights[j] / (N * Scale)  with        *)
(*   Weights[j] = SUM_i max(0, h * D - |j * n - x_i * D|)                  *)
(*   Scale      = s * h * h * D / n.                                       *)
(* A score is a fraction [num, den].                                       *)
(***************************************************************************)
Abs(x) == IF x < 0 THEN -x ELSE x

Min(x, y) == IF x < y THEN x ELSE y

RECURSIVE SumTo(_, _)
SumTo(s, i) == IF i = 0 THEN 0 ELSE s[i] + SumTo(s, i - 1)

Sum(s) == Let(s, LAMBDA v : SumTo(v, Len(v)))

Steps(c) == IF c.samples > 1 THEN c.samples - 1 ELSE 1

Weights(c) ==
    LET D == Steps(c)
        at(j) == [i \in 1..Len(c.offsets) |->
                     LET w == c.bandwidth * D - Abs((j - 1) * c.n - c.offsets[i] * D)
                     IN IF w > 0 THEN w ELSE 0]
    IN [j \in 1..c.samples |-> Sum(at(j))]

\* np.trapz(np.minimum(t1_kde, t2_kde)) of the curves with weights w1 and w2
\* over n1 and n2 offsets.
trapz_minimum(w1, n1, w2, n2) ==
    Let([j \in 1..Len(w1) |-> Min(w1[j] * n2, w2[j] * n1)], LAMBDA m :
        Sum([j \in 1..(Len(m) - 1) |-> m[j] + m[j + 1]]))

intersect(c1, c2) ==
    Let(<<Weights(c1), Weights(c2)>>, LAMBDA w :
        [num |-> trapz_minimum(w[1], Len(c1.offsets), w[2], Len(c2.offsets)) * c1.n,
         den |-> 2 * Len(c1.offsets) * Len(c2.offsets)
                   * c1.samples * c1.bandwidth * c1.bandwidth * Steps(c1)])

Dot(u, v) == Sum([j \in 1..Len(u) |-> u[j] * v[j]])

\* 1 - distance.cosine(t1_kde, t2_kde) = u.v / (|u| |v|), which is not
\* rational: the fraction is its square, which orders the scores alike (no
\* curve is negative).
cosine(c1, c2) ==
    Let(<<Weights(c1), Weights(c2)>>, LAMBDA w :
        Let(Dot(w[1], w[2]), LAMBDA uv :
            [num |-> uv * uv, den |-> Dot(w[1], w[1]) * Dot(w[2], w[2])]))

\* 1 - distance.braycurtis(t1_kde, t2_kde) = 1 - SUM|u - v| / SUM|u + v|
braycurtis(c1, c2) ==
    Let(<<Weights(c1), Weights(c2), Len(c1.offsets), Len(c2.offsets)>>, LAMBDA w :
        Let(<<Sum([j \in 1..Len(w[1]) |-> Abs(w[1][j] * w[4] - w[2][j] * w[3])]),
              Sum([j \in 1..Len(w[1]) |-> Abs(w[1][j] * w[4] + w[2][j] * w[3])])>>,
            LAMBDA d : [num |-> d[2] - d[1], den |-> d[2]]))

Evaluators == {"intersect", "cosine", "braycurtis"}

Evaluate(method, c1, c2) ==
    CASE method = "intersect" -> intersect(c1, c2)
      [] method = "cosine" -> cosine(c1, c2)
      [] method = "braycurtis" -> braycurtis(c1, c2)

After(W, out) == [W EXCEPT !.terms = out.terms, !.cache = out.cache, !.computed = out.computed]

\* score_intersect, score_cosine and score_braycurtis: the two curves through
\* kde with the same keyword arguments, then the measure.
score(method, W, o, term1, term2, kwargs) ==
    Let(kde(W, o, Call(<<term1>>, kwargs)), LAMBDA k1 :
        IF k1.raised # "none" THEN k1
        ELSE Let(kde(After(W, k1), o, Call(<<term2>>, kwargs)), LAMBDA k2 :
                 IF k2.raised # "none" THEN k2
                 ELSE [k2 EXCEPT !.ret = Evaluate(method, k1.ret, k2.ret),
                                 !.hit = k1.hit /\ k2.hit,
                                 !.recomputed = k1.recomputed \/ k2.recomputed]))

\* The loop's pass with the anchor itself left out.
anchored_step_others(method, o, anchor, kwargs, term, acc) ==
    IF term = anchor THEN acc
    ELSE Let(score(method, acc.W, o, anchor, term, kwargs), LAMBDA s :
             [raised |-> s.raised,
              pairs |-> IF s.raised = "none"
                        THEN Append(acc.pairs, [k |-> term, v |-> s.ret])
                        ELSE acc.pairs,
              W |-> After(acc.W, s)])

\* One pass of the loop of anchored_scores: pairs[term] = evaluator(anchor, term).
\* acc is [raised, pairs, W].
anchored_step(method, o, anchor, kwargs, term, acc) ==
    Let(score(method, acc.W, o, anchor, term, kwargs), LAMBDA s :
        [raised |-> s.raised,
         pairs |-> IF s.raised = "none"
                   THEN Append(acc.pairs, [k |-> term, v |-> s.ret])
                   ELSE acc.pairs,
         W |-> After(acc.W, s)])

RECURSIVE anchored_loop(_, _, _, _, _, _, _)
anchored_loop(method, o, anchor, kwargs, order, i, acc) ==
    IF i > Len(order) \/ acc.raised # "none" THEN acc
    ELSE Let(anchored_step(method, o, anchor, kwargs, order[i], acc), LAMBDA nxt :
             anchored_loop(method, o, anchor, kwargs, order, i + 1, nxt))

anchored_scores(W, o, anchor, method, kwargs) ==
    IF method \notin Evaluators
    THEN [raised |-> "AttributeError", ret |-> <<>>, terms |-> W.terms, cache |-> W.cache,
          computed |-> W.computed, hit |-> FALSE, recomputed |-> FALSE]
    ELSE Let(anchored_loop(method, o, anchor, kwargs, keys(W.terms), 1,
                           [raised |-> "none", pairs |-> <<>>, W |-> W]), LAMBDA fin :
             [raised |-> fin.raised,
              ret |-> IF fin.raised = "none" THEN utils_sort_dict(fin.pairs, "fraction") ELSE <<>>,
              terms |-> fin.W.terms, cache |-> fin.W.cache, computed |-> fin.W.computed,
              hit |-> FALSE, recomputed |-> FALSE])

(***************************************************************************)
(* The operations.  A caller calls one operation at a time: the call       *)
(* leaves its outcome in last, and Return hands it to the caller.          *)
(***************************************************************************)
Depths == -2..(MaxLen + 1)

Idle ==
    [op |-> "idle", self |-> "t1", args |-> <<>>, raised |-> "none", ret |-> <<>>,
     hit |-> FALSE, recomputed |-> FALSE]

Done(op, o, args, out) ==
    /\ last' = [op |-> op, self |-> o, args |-> args, raised |-> out.raised,
                ret |-> out.ret, hit |-> FALSE, recomputed |-> FALSE]
    /\ terms' = [terms EXCEPT ![o] = out.terms]

DoneKde(op, o, args, out) ==
    /\ last' = [op |-> op, self |-> o, args |-> args, raised |-> out.raised,
                ret |-> out.ret, hit |-> out.hit, recomputed |-> out.recomputed]
    /\ terms' = [terms EXCEPT ![o] = out.terms]
    /\ cache' = out.cache
    /\ computed' = out.computed

Return ==
    /\ last.op # "idle"
    /\ last' = Idle
    /\ UNCHANGED <<text, tokens, terms, cache, computed, sweep>>

TermCounts(o) ==
    /\ last.op = "idle"
    /\ Done("term_counts", o, <<>>, Ok(term_counts(terms[o]), terms[o]))
    /\ UNCHANGED <<text, tokens, cache, computed, sweep>>

TermCountBuckets(o) ==
    /\ last.op = "idle"
    /\ Done("term_count_buckets", o, <<>>, Ok(term_count_buckets(terms[o]), terms[o]))
    /\ UNCHANGED <<text, tokens, cache, computed, sweep>>

MostFrequentTerms(o, depth) ==
    /\ last.op = "idle"
    /\ Done("most_frequent_terms", o, <<depth>>, most_frequent_terms(terms[o], depth))
    /\ UNCHANGED <<text, tokens, cache, computed, sweep>>

TermDistances(o, term) ==
    /\ last.op = "idle"
    /\ Done("term_distances", o, <<term>>, term_distances(terms[o], term))
    /\ UNCHANGED <<text, tokens, cache, computed, sweep>>

Unstem(o, term) ==
    /\ last.op = "idle"
    /\ Done("unstem", o, <<term>>, unstem(tokens[o], terms[o], term))
    /\ UNCHANGED <<text, tokens, cache, computed, sweep>>

\* The forms a caller passes kde's parameters in: none of them, all by
\* position, all by keyword.
DefaultCall(term) == Call(<<term>>, <<>>)

PositionalCall(term, p) == Call(<<term, p[1], p[2], p[3]>>, <<>>)

KeywordCall(term, p) ==
    Call(<<term>>, <<Kw("bandwidth", p[1]), Kw("samples", p[2]), Kw("kernel", p[3])>>)

DefaultParams == <<default_bandwidth, default_samples, default_kernel>>

LinearParams == <<4, 2, "linear">>

Kde(o, call) ==
    /\ last.op = "idle"
    /\ \E out \in {kde(World(o), o, call)} :
          /\ DoneKde("kde", o, call, out)
          /\ UNCHANGED <<text, tokens, sweep>>

\* The keyword arguments a caller passes the scorers.
ScoreKwargs == {KeywordCall("", LinearParams).kwds}

Methods == Evaluators \cup {"jaccard"}

Score(method, o, term1, term2, kwargs) ==
    /\ last.op = "idle"
    /\ \E out \in {score(method, World(o), o, term1, term2, kwargs)} :
          /\ DoneKde("score_" \o method, o, <<term1, term2, kwargs>>, out)
          /\ UNCHANGED <<text, tokens, sweep>>

AnchoredScores(o, anchor, method, kwargs) ==
    /\ last.op = "idle"
    /\ \E out \in {anchored_scores(World(o), o, anchor, method, kwargs)} :
          /\ DoneKde("anchored_scores", o, <<anchor, method, kwargs>>, out)
          /\ UNCHANGED <<text, tokens, sweep>>

\* self.text = t; self.tokenize()
Retokenize(o, t) ==
    /\ last.op = "idle"
    /\ text' = [text EXCEPT ![o] = t]
    /\ tokens' = [tokens EXCEPT ![o] = tokenize(t).tokens]
    /\ terms' = [terms EXCEPT ![o] = tokenize(t).terms]
    /\ last' = [Idle EXCEPT !.op = "tokenize", !.self = o]
    /\ UNCHANGED <<cache, computed, sweep>>

\* One pass of a caller's loop over bandwidths: kde(term, bandwidth).
SweepKde(o, term) ==
    /\ last.op = "idle"
    /\ sweep < MaxSweep
    /\ \E out \in {kde(World(o), o, Call(<<term, sweep + 1>>, <<>>))} :
          /\ sweep' = sweep + 1
          /\ DoneKde("kde", o, Call(<<term, sweep + 1>>, <<>>), out)
          /\ UNCHANGED <<text, tokens>>

\* Text(t) for each object: __init__ stores the text and tokenizes.
InitWith(T1, T2) ==
    /\ text \in {f \in [Objects -> T1 \cup T2] : f["t1"] \in T1 /\ f["t2"] \in T2}
    /\ tokens = [o \in Objects |-> tokenize(text[o]).tokens]
    /\ terms = [o \in Objects |-> tokenize(text[o]).terms]
    /\ cache = <<>>
    /\ computed = {}
    /\ sweep = 0
    /\ last = Idle

(***************************************************************************)
(* Spec: the tokenizer, the index and the frequency analyzer on every     *)
(* text of up to MaxLen words.                                             *)
(***************************************************************************)
Init == InitWith(Texts, {<<"cat">>})

Next ==
    \/ \E o \in Objects :
        \/ TermCounts(o)
        \/ TermCountBuckets(o)
        \/ \E depth \in Depths : MostFrequentTerms(o, depth)
        \/ \E term \in Stems : TermDistances(o, term)
        \/ \E term \in Stems : Unstem(o, term)
    \/ Return

Spec == Init /\ [][Next]_vars

(***************************************************************************)
(* SpecKde: every query, the density estimator and its cache included, on  *)
(* a few texts.                                                            *)
(***************************************************************************)
KdeTexts == {<<>>, <<"the", "cat", "sat">>, <<"cat", "sat", "cats">>, <<"sat", "cat", "ons">>}

InitKde == InitWith(KdeTexts, {<<"cat">>})

NextKde ==
    \/ \E o \in Objects :
        \/ TermCounts(o)
        \/ TermCountBuckets(o)
        \/ \E depth \in Depths : MostFrequentTerms(o, depth)
        \/ \E term \in Stems : TermDistances(o, term)
        \/ \E term \in Stems : Unstem(o, term)
        \/ \E term \in Stems : Kde(o, KeywordCall(term, LinearParams))
        \/ \E method \in Evaluators, term1, term2 \in Stems, kwargs \in ScoreKwargs :
               Score(method, o, term1, term2, kwargs)
        \/ \E anchor \in Stems, method \in Methods, kwargs \in ScoreKwargs :
               AnchoredScores(o, anchor, method, kwargs)
    \/ Return

SpecKde == InitKde /\ [][NextKde]_vars

(***************************************************************************)
(* SpecLRU: one object's kde calls for one curve, with the parameters left *)
(* to their defaults or (before the loop starts) passed by position, while *)
(* another object's loop over bandwidths fills the cache the two share.    *)
(***************************************************************************)
InitLRU == InitWith({<<"cat", "sat">>}, {<<"cat">>})

NextLRU ==
    \/ Kde("t1", DefaultCall("cat"))
    \/ sweep = 0 /\ Kde("t1", PositionalCall("cat", DefaultParams))
    \/ SweepKde("t2", "cat")
    \/ Return

SpecLRU == InitLRU /\ [][NextLRU]_vars

(***************************************************************************)
(* SpecStale: kde calls between runs of tokenize on a changed text.        *)
(***************************************************************************)
NextStale ==
    \/ \E o \in Objects, term \in Stems : Kde(o, DefaultCall(term))
    \/ \E t \in KdeTexts : Retokenize("t1", t)
    \/ Return

SpecStale == InitKde /\ [][NextStale]_vars

(***************************************************************************)
(* The claims.                                                             *)
(***************************************************************************)
Count(o, t) == Len(Get(terms[o], t))

Terms(o) == Range(keys(terms[o]))

Offsets(o) == UNION {Range(terms[o][i].v) : i \in 1..Len(terms[o])}

\* C1: after construction every offset in the list of a term T of the Term
\* Index is an index into the token sequence, the token there is not the
\* stopword placeholder, and its stemmed form is T.
C1_OffsetsPointAtTheirTerm ==
    \A o \in Objects : \A i \in 1..Len(terms[o]) : \A x \in Range(terms[o][i].v) :
        /\ 0 <= x
        /\ x < Len(tokens[o])
        /\ tokens[o][x + 1] # None
        /\ tokens[o][x + 1].stemmed = terms[o][i].k

\* A text with a placeholder before a term that occurs twice, in two forms.
C1_Witness ==
    /\ text["t1"] = <<"the", "cats", "cat">>
    /\ tokens["t1"][1] = None
    /\ terms["t1"] = <<[k |-> "cat", v |-> <<1, 2>>]>>

C3_MostFrequentKeepsTiedGroups ==
    (last.op = "most_frequent_terms" /\ last.args[1] >= 1 /\ terms[last.self] # <<>>) =>
        LET o == last.self
            counts == term_counts(terms[o])
            d == IF last.args[1] < Len(counts) THEN last.args[1] ELSE Len(counts)
        IN /\ last.raised = "none"
           /\ last.ret \subseteq Terms(o)
           /\ \E t \in last.ret : Count(o, t) = Count(o, counts[d].k)
           /\ \A t \in last.ret : Count(o, t) >= Count(o, counts[d].k)
           /\ \A t \in last.ret : \A u \in Terms(o) : Count(o, u) = Count(o, t) => u \in last.ret
           /\ last.args[1] >= Len(counts) => last.ret = Terms(o)

\* depth 1 on a text of three terms that occur once each: all three.
C3_Witness ==
    /\ last.op = "most_frequent_terms"
    /\ last.args = <<1>>
    /\ Len(terms[last.self]) = 3
    /\ last.ret = Terms(last.self)

C6_MissingAnchorRaises ==
    (/\ last.op = "anchored_scores"
     /\ last.args[2] \in Evaluators
     /\ last.args[1] \notin Terms(last.self)) => last.raised = "KeyError"

\* C7: the empty text gives no tokens and no terms, and kde for a term that
\* is not in the index raises at the lookup: nothing is computed and nothing
\* is cached for the term.
C7_MissingTermRaisesAndCachesNothing ==
    /\ \A o \in Objects : text[o] = <<>> => (tokens[o] = <<>> /\ terms[o] = <<>>)
    /\ (last.op = "kde" /\ last.args.args[1] \notin Terms(last.self)) =>
           last.raised = "KeyError"
    /\ \A i \in 1..Len(cache) : cache[i].key.args[1] \in Terms(cache[i].key.self)
    /\ \A id \in computed : id.term \in Terms(id.self)

\* kde on the empty text, after a curve of the other object was cached.
C7_Witness ==
    /\ last.op = "kde"
    /\ text[last.self] = <<>>
    /\ last.raised = "KeyError"
    /\ cache # <<>>

\* C8: most_frequent_terms with a depth of zero or less raises.
C8_NonPositiveDepthRaises ==
    (last.op = "most_frequent_terms" /\ last.args[1] <= 0) => last.raised # "none"

QueryOps ==
    {"term_counts", "term_count_buckets", "most_frequent_terms", "term_distances",
     "unstem", "kde", "score_intersect", "score_cosine", "score_braycurtis",
     "anchored_scores"}

\* C9: no query, whether it returns or raises, changes the text, the token
\* sequence or the Term Index of any object.
C9_QueriesLeaveTokensAndTerms ==
    [][last'.op \in QueryOps => (text' = text /\ tokens' = tokens /\ terms' = terms)]_vars

\* A lookup of a missing term that raised, with curves in the cache.
C9_Witness ==
    /\ last.op = "term_distances"
    /\ last.raised = "KeyError"
    /\ Len(cache) >= 2

\* C10: what kde returns for (object, term, bandwidth, samples, kernel) is
\* what its body computes on the object's current tokens and index.
C10_KdeReturnsFreshCurve ==
    last.op = "kde" =>
        LET fresh == kde_body(tokens[last.self], terms[last.self], Bind(last.args))
        IN last.raised = fresh.raised /\ last.ret = fresh.ret

====
